---- MODULE Spec2Model ----
(***************************************************************************)
(* Model of vbtokenizer's SimpleTokenizer (src/vbtokenizer/tokenizer.py):  *)
(* a byte-level BPE tokenizer with training, encoding, decoding, special   *)
(* tokens and a two-file persisted state.                                  *)
(*                                                                         *)
(* Texts (Python str) are sequences of code points, byte strings are       *)
(* sequences of integers 0..255, Python dicts are sequences of             *)
(* [key, val] records in insertion order with pairwise distinct keys.      *)
(* self.vocab is kept as its entries for IDs from 256 on; the 256 byte     *)
(* entries that _build_vocab always starts from are read through VocabGet. *)
(***************************************************************************)
EXTENDS Integers, Sequences, FiniteSets, TLC

VARIABLES
    merges,          \* self.merges: dict (pair -> ID)
    special_tokens,  \* self.special_tokens: dict (str -> ID)
    vocab,           \* self.vocab: dict (ID -> bytes), the entries from 256 on
    disk,            \* the folders save writes
    last,            \* the call made last: its name, arguments and outcome
    calls,           \* number of calls made so far
    all_ok           \* no call so far has raised

vars == <<merges, special_tokens, vocab, disk, last, calls, all_ok>>

----------------------------------------------------------------------------
(* Bounds of the model *)

\* number of public calls made on the tokenizer in one behaviour
MaxCalls == 3
\* longest corpus / text, in characters
MaxCorpusLen == 2
\* train is called with vocab_size in 256 - 1 .. 256 + MaxNewMerges
MaxNewMerges == 2
\* longest corpus, in characters, of the behaviours that only train
MaxTrainLen == 3
\* longest token sequence handed to _merge_bytepairs on its own
MaxMergeLen == 4

(* Program constants *)

\* number of raw byte tokens; the first merge ID (idx = 256 + i)
ByteCount == 256
\* "\n", the line terminator of both files
NL == 10
\* " ", the separator of a merge line
SP == 32
\* "-" and "0", used by the decimal rendering of an int
Minus == 45
Zero == 48
\* U+FFFD, what errors="replace" substitutes
Replacement == 65533

\* characters of corpora and texts: "a" and "e-acute" (2 bytes in UTF-8)
Chars == {97, 233}

SeqsUpTo(S, n) == UNION {[1..k -> S] : k \in 0..n}

Texts == SeqsUpTo(Chars, MaxCorpusLen)
\* special-token strings: "", "x" and a line feed
SpecialStrs == {<<>>, <<120>>, <<NL>>}
VocabSizes == (ByteCount - 1)..(ByteCount + MaxNewMerges)
\* corpora long enough for the most frequent pair not to be the first seen
\* ("a", "e-acute", "e-acute")
TrainCorpora == SeqsUpTo(Chars, MaxTrainLen)
\* arguments of _merge_bytepairs called on its own: sequences of "a", "b",
\* "c", any pair of these, and a replacement ID that is new (256) or not ("b")
MergeTokens == {97, 98, 99}
MergeSeqs == SeqsUpTo(MergeTokens, MaxMergeLen)
MergePairs == MergeTokens \X MergeTokens
MergeIds == {98, ByteCount}

----------------------------------------------------------------------------
(* Python dict as an insertion-ordered sequence of [key, val] *)

DictHas(d, k) == \E i \in 1..Len(d) : d[i].key = k

DictGet(d, k, default) ==
    IF DictHas(d, k)
    THEN d[CHOOSE i \in 1..Len(d) : d[i].key = k].val
    ELSE default

\* d[k] = v: an existing key keeps its position, a new key goes last
DictSet(d, k, v) ==
    IF DictHas(d, k)
    THEN [i \in 1..Len(d) |-> IF d[i].key = k THEN [key |-> k, val |-> v] ELSE d[i]]
    ELSE Append(d, [key |-> k, val |-> v])

----------------------------------------------------------------------------
(* str.encode("utf-8") and bytes.decode("utf-8", errors="replace") *)

Utf8EncodeChar(c) ==
    IF c < 128 THEN <<c>>
    ELSE IF c < 2048 THEN <<192 + (c \div 64), 128 + (c % 64)>>
    ELSE <<224 + (c \div 4096), 128 + ((c \div 64) % 64), 128 + (c % 64)>>

RECURSIVE Utf8Encode(_)
Utf8Encode(s) ==
    IF s = <<>> THEN <<>>
    ELSE Utf8EncodeChar(Head(s)) \o Utf8Encode(Tail(s))

IsCont(b) == b >= 128 /\ b <= 191

\* lower bound of the second byte of a 3-byte form (no overlong forms, no
\* surrogates)
SecondOk(b0, b1) ==
    /\ IsCont(b1)
    /\ (b0 = 224 => b1 >= 160)
    /\ (b0 = 237 => b1 <= 159)

\* Decoding from position i (1-based). An ill-formed maximal subpart becomes
\* one U+FFFD. Lead bytes of 4-byte forms (240..244) do not arise from the
\* alphabets above and are replaced byte by byte.
RECURSIVE Utf8DecodeFrom(_, _)
Utf8DecodeFrom(b, i) ==
    IF i > Len(b) THEN <<>>
    ELSE IF b[i] < 128 THEN <<b[i]>> \o Utf8DecodeFrom(b, i + 1)
    ELSE IF b[i] >= 194 /\ b[i] <= 223
    THEN IF i + 1 <= Len(b) /\ IsCont(b[i + 1])
         THEN <<(b[i] - 192) * 64 + (b[i + 1] - 128)>> \o Utf8DecodeFrom(b, i + 2)
         ELSE <<Replacement>> \o Utf8DecodeFrom(b, i + 1)
    ELSE IF b[i] >= 224 /\ b[i] <= 239
    THEN IF i + 1 <= Len(b) /\ SecondOk(b[i], b[i + 1])
         THEN IF i + 2 <= Len(b) /\ IsCont(b[i + 2])
              THEN <<(b[i] - 224) * 4096 + (b[i + 1] - 128) * 64 + (b[i + 2] - 128)>>
                   \o Utf8DecodeFrom(b, i + 3)
              ELSE <<Replacement>> \o Utf8DecodeFrom(b, i + 2)
         ELSE <<Replacement>> \o Utf8DecodeFrom(b, i + 1)
    ELSE <<Replacement>> \o Utf8DecodeFrom(b, i + 1)

Utf8Decode(b) == Utf8DecodeFrom(b, 1)

----------------------------------------------------------------------------
(* _count_combinations and the pair selection of train *)

\* the loop over zip(tokens, tokens[1:]): counts in first-seen order
RECURSIVE CountPairs(_, _, _)
CountPairs(tokens, i, counts) ==
    IF i >= Len(tokens) THEN counts
    ELSE LET pair == <<tokens[i], tokens[i + 1]>>
         IN  CountPairs(tokens, i + 1,
                        DictSet(counts, pair, DictGet(counts, pair, 0) + 1))

\* sorted(items, key=lambda x: -x[1]): stable, so equal counts keep their
\* first-seen order. Insert e behind every entry whose count is >= its own.
RECURSIVE InsertByCount(_, _)
InsertByCount(sorted, e) ==
    IF sorted = <<>> THEN <<e>>
    ELSE IF Head(sorted).val >= e.val
         THEN <<Head(sorted)>> \o InsertByCount(Tail(sorted), e)
         ELSE <<e>> \o sorted

RECURSIVE SortByCount(_, _)
SortByCount(items, sorted) ==
    IF items = <<>> THEN sorted
    ELSE SortByCount(Tail(items), InsertByCount(sorted, Head(items)))

CountCombinations(tokens) == SortByCount(CountPairs(tokens, 1, <<>>), <<>>)

\* Variant of max() that keeps the last of the keys tied at the maximum, as
\* a scan comparing with >= would
MaxKeyLast(combinations) ==
    LET i == CHOOSE i \in 1..Len(combinations) :
                 /\ \A j \in 1..Len(combinations) :
                        combinations[j].val <= combinations[i].val
                 /\ \A j \in (i + 1)..Len(combinations) :
                        combinations[j].val < combinations[i].val
    IN  combinations[i].key

\* max(combinations, key=combinations.get) on a non-empty dict: the first
\* key, in iteration order, whose count is the maximum
MaxKey(combinations) ==
    LET i == CHOOSE i \in 1..Len(combinations) :
                 /\ \A j \in 1..Len(combinations) :
                        combinations[j].val <= combinations[i].val
                 /\ \A j \in 1..(i - 1) :
                        combinations[j].val < combinations[i].val
    IN  combinations[i].key

----------------------------------------------------------------------------
(* _merge_bytepairs *)

\* Variant of the scan that advances one position after a match, as
\* `i += 1` in both branches would
RECURSIVE MergeFromStepOne(_, _, _, _, _)
MergeFromStepOne(tokens, pair, index, i, new_tokens) ==
    IF i > Len(tokens) THEN new_tokens
    ELSE IF i < Len(tokens) /\ tokens[i] = pair[1] /\ tokens[i + 1] = pair[2]
         THEN MergeFromStepOne(tokens, pair, index, i + 1, Append(new_tokens, index))
         ELSE MergeFromStepOne(tokens, pair, index, i + 1, Append(new_tokens, tokens[i]))

RECURSIVE MergeFrom(_, _, _, _, _)
MergeFrom(tokens, pair, index, i, new_tokens) ==
    IF i > Len(tokens) THEN new_tokens
    ELSE IF i < Len(tokens) /\ tokens[i] = pair[1] /\ tokens[i + 1] = pair[2]
         THEN MergeFrom(tokens, pair, index, i + 2, Append(new_tokens, index))
         ELSE MergeFrom(tokens, pair, index, i + 1, Append(new_tokens, tokens[i]))

MergeBytepairs(tokens, pair, index) == MergeFrom(tokens, pair, index, 1, <<>>)

----------------------------------------------------------------------------
(* _build_vocab *)

\* vocab = {idx: bytes([idx]) for idx in range(256)}: every build starts
\* from these entries and every later assignment is to an ID >= 256, so a
\* vocab is held as the function of its other entries
BaseVocab == <<>>

\* idx in vocab
VocabHas(voc, idx) == idx \in 0..(ByteCount - 1) \/ idx \in DOMAIN voc

\* vocab[idx], for idx in vocab
VocabGet(voc, idx) == IF idx \in 0..(ByteCount - 1) THEN <<idx>> ELSE voc[idx]

\* vocab[idx] = bytes
VocabPut(voc, idx, bytes) == (idx :> bytes) @@ voc

\* for (p0, p1), idx in self.merges.items(): vocab[idx] = vocab[p0] + vocab[p1]
\* A pair that names an ID not in vocab raises KeyError (ok = FALSE).
RECURSIVE VocabMerges(_, _, _)
VocabMerges(mrg, i, voc) ==
    IF i > Len(mrg) THEN [ok |-> TRUE, vocab |-> voc]
    ELSE LET p0 == mrg[i].key[1]
             p1 == mrg[i].key[2]
         IN  IF VocabHas(voc, p0) /\ VocabHas(voc, p1)
             THEN VocabMerges(mrg, i + 1,
                              VocabPut(voc, mrg[i].val,
                                       VocabGet(voc, p0) \o VocabGet(voc, p1)))
             ELSE [ok |-> FALSE, vocab |-> voc]

\* for special_token, idx in self.special_tokens.items():
\*     vocab[idx] = special_token.encode("utf-8")
RECURSIVE VocabSpecials(_, _, _)
VocabSpecials(sp, i, voc) ==
    IF i > Len(sp) THEN voc
    ELSE VocabSpecials(sp, i + 1, VocabPut(voc, sp[i].val, Utf8Encode(sp[i].key)))

BuildVocab(mrg, sp) ==
    LET m == VocabMerges(mrg, 1, BaseVocab)
    IN  IF m.ok
        THEN [ok |-> TRUE, vocab |-> VocabSpecials(sp, 1, m.vocab)]
        ELSE [ok |-> FALSE, vocab |-> m.vocab]

----------------------------------------------------------------------------
(* encode / decode *)

RECURSIVE ApplyMerges(_, _, _)
ApplyMerges(mrg, i, tokens) ==
    IF i > Len(mrg) THEN tokens
    ELSE ApplyMerges(mrg, i + 1, MergeBytepairs(tokens, mrg[i].key, mrg[i].val))

Encode(mrg, input) == ApplyMerges(mrg, 1, Utf8Encode(input))

RECURSIVE JoinBytes(_, _)
JoinBytes(voc, ids) ==
    IF ids = <<>> THEN <<>>
    ELSE VocabGet(voc, Head(ids)) \o JoinBytes(voc, Tail(ids))

\* b"".join(self.vocab[idx] ...) raises KeyError on an ID missing from vocab
Decode(voc, tokenized_input) ==
    IF \A i \in 1..Len(tokenized_input) : VocabHas(voc, tokenized_input[i])
    THEN LET tokens == JoinBytes(voc, tokenized_input)
         IN  [status |-> "ok", bytes |-> tokens, text |-> Utf8Decode(tokens)]
    ELSE [status |-> "raised", bytes |-> <<>>, text |-> <<>>]

----------------------------------------------------------------------------
(* train *)

\* The for loop of train, from iteration i with n iterations in all.
\* trace collects the working sequence at the start of every iteration that
\* is entered. max() of an empty dict raises ValueError: the loop is left
\* with the rules recorded so far in self.merges.
\* Variant of the loop that leaves quietly when no pair is left, as
\* `if not combinations: break` would
RECURSIVE TrainLoopStops(_, _, _, _, _)
TrainLoopStops(tokens, mrg, i, n, trace) ==
    IF i >= n THEN [status |-> "ok", merges |-> mrg, tokens |-> tokens, trace |-> trace]
    ELSE LET combinations == CountCombinations(tokens)
             entered == Append(trace, tokens)
         IN  IF combinations = <<>>
             THEN [status |-> "ok", merges |-> mrg, tokens |-> tokens,
                   trace |-> entered]
             ELSE LET top_pair == MaxKey(combinations)
                      idx == ByteCount + i
                  IN  TrainLoopStops(MergeBytepairs(tokens, top_pair, idx),
                                     DictSet(mrg, top_pair, idx), i + 1, n, entered)

RECURSIVE TrainLoop(_, _, _, _, _)
TrainLoop(tokens, mrg, i, n, trace) ==
    IF i >= n THEN [status |-> "ok", merges |-> mrg, tokens |-> tokens, trace |-> trace]
    ELSE LET combinations == CountCombinations(tokens)
             entered == Append(trace, tokens)
         IN  IF combinations = <<>>
             THEN [status |-> "raised", merges |-> mrg, tokens |-> tokens,
                   trace |-> entered]
             ELSE LET top_pair == MaxKey(combinations)
                      idx == ByteCount + i
                  IN  TrainLoop(MergeBytepairs(tokens, top_pair, idx),
                                DictSet(mrg, top_pair, idx), i + 1, n, entered)

TrainRun(corpus, vocab_size) ==
    TrainLoop(Utf8Encode(corpus), <<>>, 0, vocab_size - ByteCount, <<>>)

\* Variant of the call without `self.merges = {}`: the loop records its
\* rules into the map the tokenizer already holds
TrainKeepsMerges(self, corpus, vocab_size) ==
    LET r == TrainLoop(Utf8Encode(corpus), self.merges, 0,
                       vocab_size - ByteCount, <<>>)
        v == BuildVocab(r.merges, self.special_tokens)
    IN  IF r.status = "ok" /\ v.ok
        THEN [merges |-> r.merges, special_tokens |-> self.special_tokens,
              vocab |-> v.vocab, status |-> "ok"]
        ELSE [merges |-> r.merges, special_tokens |-> self.special_tokens,
              vocab |-> self.vocab, status |-> "raised"]

\* The whole call on a tokenizer self = [merges, special_tokens, vocab]
Train(self, corpus, vocab_size) ==
    LET r == TrainRun(corpus, vocab_size)
        v == BuildVocab(r.merges, self.special_tokens)
    IN  IF r.status = "ok" /\ v.ok
        THEN [merges |-> r.merges, special_tokens |-> self.special_tokens,
              vocab |-> v.vocab, status |-> "ok"]
        ELSE [merges |-> r.merges, special_tokens |-> self.special_tokens,
              vocab |-> self.vocab, status |-> "raised"]

----------------------------------------------------------------------------
(* add_special_token *)

\* Variant without the `return` after the first msg.fail: an untrained
\* tokenizer falls through to the registration
AddSpecialTokenNoReturn(self, special_str) ==
    IF DictHas(self.special_tokens, special_str)
    THEN [self EXCEPT !.status = "rejected"]
    ELSE [self EXCEPT
            !.special_tokens =
                DictSet(self.special_tokens, special_str,
                        ByteCount + Len(self.merges) + Len(self.special_tokens)),
            !.status = IF Len(self.merges) = 0 THEN "rejected" ELSE "ok"]

\* status "rejected": msg.fail was called and nothing was registered
AddSpecialToken(self, special_str) ==
    IF Len(self.merges) = 0
    THEN [self EXCEPT !.status = "rejected"]
    ELSE IF DictHas(self.special_tokens, special_str)
    THEN [self EXCEPT !.status = "rejected"]
    ELSE [self EXCEPT
            !.special_tokens =
                DictSet(self.special_tokens, special_str,
                        ByteCount + Len(self.merges) + Len(self.special_tokens)),
            !.status = "ok"]

----------------------------------------------------------------------------
(* Files: a folder is [exists, merges_file, special_file], a file is        *)
(* [present, text] with text the characters read back in text mode.         *)

NoFile == [present |-> FALSE, text |-> <<>>]
File(text) == [present |-> TRUE, text |-> text]
NoFolder == [exists |-> FALSE, merges_file |-> NoFile, special_file |-> NoFile]

\* f"{idx}": the decimal digits of an int
RECURSIVE Digits(_)
Digits(n) ==
    IF n < 10 THEN <<Zero + n>>
    ELSE Digits(n \div 10) \o <<Zero + (n % 10)>>

IntToStr(n) == IF n < 0 THEN <<Minus>> \o Digits(0 - n) ELSE Digits(n)

\* int(s) for the characters a merge line can hold here: an optional sign
\* and at least one decimal digit; anything else raises ValueError
IsDigit(c) == c >= Zero /\ c <= Zero + 9

RECURSIVE DigitsValue(_, _)
DigitsValue(s, acc) ==
    IF s = <<>> THEN acc
    ELSE DigitsValue(Tail(s), acc * 10 + (Head(s) - Zero))

ParseInt(s) ==
    LET signed == s /= <<>> /\ Head(s) \in {Minus, 43}
        body == IF signed THEN Tail(s) ELSE s
    IN  IF body /= <<>> /\ \A i \in 1..Len(body) : IsDigit(body[i])
        THEN [ok |-> TRUE,
              val |-> IF signed /\ Head(s) = Minus
                      THEN 0 - DigitsValue(body, 0) ELSE DigitsValue(body, 0)]
        ELSE [ok |-> FALSE, val |-> 0]

\* str.split(sep) for a one-character sep: always at least one segment
RECURSIVE SplitFrom(_, _, _, _, _)
SplitFrom(s, sep, i, cur, acc) ==
    IF i > Len(s) THEN Append(acc, cur)
    ELSE IF s[i] = sep
         THEN SplitFrom(s, sep, i + 1, <<>>, Append(acc, cur))
         ELSE SplitFrom(s, sep, i + 1, Append(cur, s[i]), acc)

Split(s, sep) == SplitFrom(s, sep, 1, <<>>, <<>>)

\* text.split("\n")[:-1]
Lines(text) ==
    LET parts == Split(text, NL)
    IN  SubSeq(parts, 1, Len(parts) - 1)

----------------------------------------------------------------------------
(* save *)

RECURSIVE MergesText(_, _)
MergesText(mrg, i) ==
    IF i > Len(mrg) THEN <<>>
    ELSE IntToStr(mrg[i].key[1]) \o <<SP>> \o IntToStr(mrg[i].key[2]) \o <<NL>>
         \o MergesText(mrg, i + 1)

RECURSIVE SpecialText(_, _)
SpecialText(sp, i) ==
    IF i > Len(sp) THEN <<>>
    ELSE sp[i].key \o <<NL>> \o SpecialText(sp, i + 1)

\* the folder as save leaves it (created when absent, both files rewritten)
Save(self, folder) ==
    [exists |-> TRUE,
     merges_file |-> File(MergesText(self.merges, 1)),
     special_file |-> File(SpecialText(self.special_tokens, 1))]

----------------------------------------------------------------------------
(* load *)

\* for i, row in enumerate(merges): ... self.merges[(idx1, idx2)] = i + 256
\* rows[i] is line i - 1 of the file. A row that does not split into two
\* ints raises ValueError with the earlier rows already stored.
RECURSIVE LoadMerges(_, _, _)
LoadMerges(mrg, rows, i) ==
    IF i > Len(rows) THEN [ok |-> TRUE, merges |-> mrg]
    ELSE LET parts == Split(rows[i], SP)
         IN  IF Len(parts) /= 2 THEN [ok |-> FALSE, merges |-> mrg]
             ELSE LET idx1 == ParseInt(parts[1])
                      idx2 == ParseInt(parts[2])
                  IN  IF idx1.ok /\ idx2.ok
                      THEN LoadMerges(
                               DictSet(mrg, <<idx1.val, idx2.val>>, (i - 1) + ByteCount),
                               rows, i + 1)
                      ELSE [ok |-> FALSE, merges |-> mrg]

\* for i, special_token in enumerate(special_tokens):
\*     self.special_tokens[special_token] = i + 256 + merges_length
RECURSIVE LoadSpecials(_, _, _, _)
LoadSpecials(sp, rows, i, merges_length) ==
    IF i > Len(rows) THEN sp
    ELSE LoadSpecials(DictSet(sp, rows[i], (i - 1) + ByteCount + merges_length),
                      rows, i + 1, merges_length)

Load(self, folder) ==
    IF ~folder.exists \/ ~folder.merges_file.present
    THEN [self EXCEPT !.status = "raised"]
    ELSE LET m == LoadMerges(self.merges, Lines(folder.merges_file.text), 1)
         IN  IF ~m.ok \/ ~folder.special_file.present
             THEN [self EXCEPT !.merges = m.merges, !.status = "raised"]
             ELSE LET sp == LoadSpecials(self.special_tokens,
                                         Lines(folder.special_file.text), 1,
                                         Len(m.merges))
                      v == BuildVocab(m.merges, sp)
                  IN  [merges |-> m.merges, special_tokens |-> sp,
                       vocab |-> IF v.ok THEN v.vocab ELSE self.vocab,
                       status |-> IF v.ok THEN "ok" ELSE "raised"]

----------------------------------------------------------------------------
(* The tokenizer object and the file system *)

\* save writes to "out", which does not exist at first; the other folders
\* are as the environment left them, and "missing" does not exist
Dirs == {"out", "ext", "bad", "nospecial", "missing"}
SaveDirs == {"out"}

\* "97 97\n195 169\n" and "x\n": what save writes for a tokenizer that
\* learned "aa" and then the two bytes of e-acute
ExtFolder ==
    [exists |-> TRUE,
     merges_file |-> File(<<57, 55, SP, 57, 55, NL,
                            49, 57, 53, SP, 49, 54, 57, NL>>),
     special_file |-> File(<<120, NL>>)]
\* "98 98\n98\n": the second line is malformed
BadFolder ==
    [exists |-> TRUE,
     merges_file |-> File(<<57, 56, SP, 57, 56, NL, 57, 56, NL>>),
     special_file |-> File(<<120, NL>>)]
\* "98 97\n" and no tokenizer_special.vm
NoSpecialFolder ==
    [exists |-> TRUE,
     merges_file |-> File(<<57, 56, SP, 57, 55, NL>>),
     special_file |-> NoFile]

Folder(dir) ==
    CASE dir \in SaveDirs -> disk[dir]
      [] dir = "ext" -> ExtFolder
      [] dir = "bad" -> BadFolder
      [] dir = "nospecial" -> NoSpecialFolder
      [] OTHER -> NoFolder

Self == [merges |-> merges, special_tokens |-> special_tokens, vocab |-> vocab,
         status |-> "ok"]

\* SimpleTokenizer(): the state __init__ leaves
Fresh == [merges |-> <<>>, special_tokens |-> <<>>,
          vocab |-> BuildVocab(<<>>, <<>>).vocab, status |-> "ok"]

Call(op, status, text, vocab_size, dir) ==
    [op |-> op, status |-> status, text |-> text, vocab_size |-> vocab_size,
     dir |-> dir]

Init ==
    /\ merges = Fresh.merges
    /\ special_tokens = Fresh.special_tokens
    /\ vocab = Fresh.vocab
    /\ disk = [d \in SaveDirs |-> NoFolder]
    /\ last = Call("init", "ok", <<>>, 0, "")
    /\ calls = 0
    /\ all_ok = TRUE

\* one more call, with the given outcome
Counted(status) ==
    /\ calls' = calls + 1
    /\ all_ok' = (all_ok /\ status /= "raised")

DoTrain ==
    /\ calls < MaxCalls
    /\ \E corpus \in Texts, vocab_size \in VocabSizes :
        LET r == Train(Self, corpus, vocab_size)
        IN  /\ merges' = r.merges
            /\ special_tokens' = r.special_tokens
            /\ vocab' = r.vocab
            /\ last' = Call("train", r.status, corpus, vocab_size, "")
            /\ Counted(r.status)
            /\ UNCHANGED disk

DoAddSpecialToken ==
    /\ calls < MaxCalls
    /\ \E special_str \in SpecialStrs :
        LET r == AddSpecialToken(Self, special_str)
        IN  /\ merges' = r.merges
            /\ special_tokens' = r.special_tokens
            /\ vocab' = r.vocab
            /\ last' = Call("add_special_token", r.status, special_str, 0, "")
            /\ Counted(r.status)
            /\ UNCHANGED disk

DoSave ==
    /\ calls < MaxCalls
    /\ \E dir \in SaveDirs :
        /\ disk' = [disk EXCEPT ![dir] = Save(Self, disk[dir])]
        /\ last' = Call("save", "ok", <<>>, 0, dir)
        /\ Counted("ok")
        /\ UNCHANGED <<merges, special_tokens, vocab>>

DoLoad ==
    /\ calls < MaxCalls
    /\ \E dir \in Dirs :
        LET r == Load(Self, Folder(dir))
        IN  /\ merges' = r.merges
            /\ special_tokens' = r.special_tokens
            /\ vocab' = r.vocab
            /\ last' = Call("load", r.status, <<>>, 0, dir)
            /\ Counted(r.status)
            /\ UNCHANGED disk

Next == DoTrain \/ DoAddSpecialToken \/ DoSave \/ DoLoad

Spec == Init /\ [][Next]_vars

\* train on the longer corpora
DoTrainCorpus ==
    /\ calls < MaxCalls
    /\ \E corpus \in TrainCorpora, vocab_size \in VocabSizes :
        LET r == Train(Self, corpus, vocab_size)
        IN  /\ merges' = r.merges
            /\ special_tokens' = r.special_tokens
            /\ vocab' = r.vocab
            /\ last' = Call("train", r.status, corpus, vocab_size, "")
            /\ Counted(r.status)
            /\ UNCHANGED disk

TrainNext == DoTrainCorpus

\* a tokenizer that is only trained, again and again
TrainSpec == Init /\ [][TrainNext]_vars

\* _merge_bytepairs on its own: it reads nothing of the tokenizer and
\* changes nothing of it. last holds the arguments and, after the call, the
\* returned sequence.
MergeInit ==
    /\ merges = <<>>
    /\ special_tokens = <<>>
    /\ vocab = BaseVocab
    /\ disk = [d \in SaveDirs |-> NoFolder]
    /\ calls = 0
    /\ all_ok = TRUE
    /\ \E tokens \in MergeSeqs, pair \in MergePairs, index \in MergeIds :
           last = [op |-> "arguments", tokens |-> tokens, pair |-> pair,
                   index |-> index, result |-> <<>>]

DoMergeBytepairs ==
    /\ last.op = "arguments"
    /\ last' = [last EXCEPT
                  !.op = "_merge_bytepairs",
                  !.result = MergeBytepairs(last.tokens, last.pair, last.index)]
    /\ calls' = calls + 1
    /\ UNCHANGED <<merges, special_tokens, vocab, disk, all_ok>>

MergeNext == DoMergeBytepairs

MergeSpec == MergeInit /\ [][MergeNext]_vars

----------------------------------------------------------------------------
(* Properties *)

\* ID sequences handed to decode when two tokenizers are compared
DecodeIds == {97, 169, 195} \cup (ByteCount..(ByteCount + MaxNewMerges + 1))
DecodeInputs == SeqsUpTo(DecodeIds, 2)

\* C1: in every state reached by calls that all completed without raising,
\* decode(encode(T)) succeeds and the bytes it joins are exactly the UTF-8
\* bytes of T (so the text returned is T), for every text T.
C1_RoundTrip ==
    all_ok =>
        \A T \in Texts :
            LET d == Decode(vocab, Encode(merges, T))
            IN  /\ d.status = "ok"
                /\ d.bytes = Utf8Encode(T)
                /\ d.text = T

\* C2: right after an accepted add_special_token(s), s has the ID
\* 256 + number of merges + number of special tokens registered before it,
\* vocab maps that ID to the bytes of s, and decode([ID]) returns s.
C2_AddSpecialRebuilds ==
    (last.op = "add_special_token" /\ last.status = "ok") =>
        LET id == DictGet(special_tokens, last.text, 0 - 1)
            d == Decode(vocab, <<id>>)
        IN  /\ id = ByteCount + Len(merges) + (Len(special_tokens) - 1)
            /\ VocabHas(vocab, id)
            /\ VocabGet(vocab, id) = Utf8Encode(last.text)
            /\ d.status = "ok"
            /\ d.text = last.text

\* C3: between calls, vocab is what _build_vocab produces from the current
\* merges and special_tokens.
C3_VocabDerived ==
    LET v == BuildVocab(merges, special_tokens)
    IN  v.ok /\ vocab = v.vocab

\* C4: the special-token IDs are 256+|merges| .. 256+|merges|+|special|-1 in
\* registration order, and no special-token ID is a merge ID.
C4_SpecialIdsAfterMerges ==
    /\ \A i \in 1..Len(special_tokens) :
           special_tokens[i].val = ByteCount + Len(merges) + (i - 1)
    /\ \A i \in 1..Len(special_tokens), j \in 1..Len(merges) :
           special_tokens[i].val /= merges[j].val

\* C5: right after save(dir), load(dir) into a fresh tokenizer succeeds and
\* gives the same merges and special_tokens (keys, IDs, order) and the same
\* results of encode and decode on every input.
C5_SaveLoadRoundTrip ==
    last.op = "save" =>
        LET r == Load(Fresh, Folder(last.dir))
        IN  /\ r.status = "ok"
            /\ r.merges = merges
            /\ r.special_tokens = special_tokens
            /\ \A T \in Texts : Encode(r.merges, T) = Encode(merges, T)
            /\ \A ids \in DecodeInputs : Decode(r.vocab, ids) = Decode(vocab, ids)

\* C6: train with vocab_size < 256 raises, whatever the corpus.
C6_TrainRejectsSmallVocab ==
    (last.op = "train" /\ last.vocab_size < ByteCount) => last.status = "raised"

\* the working sequence of some entered iteration of train(corpus,
\* vocab_size) has fewer than 2 tokens
RunsOut(corpus, vocab_size) ==
    LET r == TrainRun(corpus, vocab_size)
    IN  \E i \in 1..Len(r.trace) : Len(r.trace[i]) < 2

\* C7: a train(corpus, 256+k), k >= 1, that enters an iteration with fewer
\* than 2 tokens raises; a train that returns normally has learned exactly k
\* merges.
C7_InsufficientData ==
    (last.op = "train" /\ last.vocab_size > ByteCount) =>
        /\ RunsOut(last.text, last.vocab_size) => last.status = "raised"
        /\ last.status = "ok" => Len(merges) = last.vocab_size - ByteCount

\* a train that ran out of pairs after it had recorded a merge
C7_Witness ==
    /\ last.op = "train"
    /\ last.status = "raised"
    /\ RunsOut(last.text, last.vocab_size)
    /\ Len(merges) >= 1

\* the rule on each line of a merges file, line i (from 0) with ID 256 + i
FileRules(text) ==
    LET rows == Lines(text)
    IN  [i \in 1..Len(rows) |->
            LET parts == Split(rows[i], SP)
            IN  [key |-> <<ParseInt(parts[1]).val, ParseInt(parts[2]).val>>,
                 val |-> ByteCount + (i - 1)]]

\* the token on each line of a special file, line i with ID 256 + count + i
FileSpecials(text, merge_count) ==
    LET rows == Lines(text)
    IN  [i \in 1..Len(rows) |->
            [key |-> rows[i], val |-> ByteCount + merge_count + (i - 1)]]

\* C8: after a successful load(dir), merges is exactly the rules of the
\* merges file in file order (line i -> 256+i) and special_tokens exactly
\* the lines of the special file (line i -> 256+merge_count+i).
C8_LoadReplaces ==
    (last.op = "load" /\ last.status = "ok") =>
        LET folder == Folder(last.dir)
            rules == FileRules(folder.merges_file.text)
        IN  /\ merges = rules
            /\ special_tokens = FileSpecials(folder.special_file.text, Len(rules))

\* C9: a load that raises leaves merges, special_tokens and vocab as they
\* were before the call.
C9_FailedLoadKeepsState ==
    [][(calls' = calls + 1 /\ last'.op = "load" /\ last'.status = "raised")
          => UNCHANGED <<merges, special_tokens, vocab>>]_vars

\* C10: add_special_token(s) on a tokenizer without merges, or with s
\* already registered, does not raise and leaves merges, special_tokens and
\* vocab unchanged.
C10_GuardedAddIsNoOp ==
    [][(/\ calls' = calls + 1
        /\ last'.op = "add_special_token"
        /\ (Len(merges) = 0 \/ DictHas(special_tokens, last'.text)))
          => (/\ last'.status = "rejected"
              /\ UNCHANGED <<merges, special_tokens, vocab>>)]_vars

\* add_special_token was refused for a string that is already registered
C10_Witness ==
    /\ last.op = "add_special_token"
    /\ last.status = "rejected"
    /\ Len(merges) > 0
    /\ DictHas(special_tokens, last.text)

\* C11: the merge rules have pairwise distinct pairs and the i-th rule in
\* insertion order (i from 0) has ID 256 + i.
C11_MergeIdsInOrder ==
    /\ \A i, j \in 1..Len(merges) : merges[i].key = merges[j].key => i = j
    /\ \A i \in 1..Len(merges) : merges[i].val = ByteCount + (i - 1)

\* The pair selected in iteration i (from 1) of a train call, read from the
\* working sequence that iteration started with
SelectedPair(run, i) == MaxKey(CountCombinations(run.trace[i]))

\* C12: a train call that returns normally leaves exactly vocab_size - 256
\* merge rules, and no iteration selects a pair that an earlier iteration of
\* the same call recorded.
C12_TrainRuleCount ==
    (last.op = "train" /\ last.status = "ok") =>
        LET run == TrainRun(last.text, last.vocab_size)
        IN  /\ Len(merges) = last.vocab_size - ByteCount
            /\ \A i, j \in 1..Len(run.trace) :
                   SelectedPair(run, i) = SelectedPair(run, j) => i = j

\* C13: the merges a successful train(corpus, vocab_size) leaves depend only
\* on (corpus, vocab_size): whatever state the tokenizer was in, they are the
\* rules, IDs and order that the same call gives on a fresh tokenizer.
C13_TrainDeterministic ==
    (last.op = "train" /\ last.status = "ok") =>
        merges = Train(Fresh, last.text, last.vocab_size).merges

\* a successful train that learned a rule on a tokenizer that was not fresh
\* (train itself never registers a special token)
C13_Witness ==
    /\ last.op = "train"
    /\ last.status = "ok"
    /\ Len(merges) >= 1
    /\ special_tokens /= <<>>

\* positions of the adjacent occurrences of pair in tokens
Positions(tokens, pair) ==
    {k \in 1..(Len(tokens) - 1) : tokens[k] = pair[1] /\ tokens[k + 1] = pair[2]}

\* number of adjacent occurrences of pair in tokens
Occ(tokens, pair) == Cardinality(Positions(tokens, pair))

\* leftmost occurrence of a pair that occurs
FirstPos(tokens, pair) ==
    CHOOSE k \in Positions(tokens, pair) :
        \A m \in Positions(tokens, pair) : k <= m

\* the adjacent pairs of tokens
AdjacentPairs(tokens) == {<<tokens[k], tokens[k + 1]>> : k \in 1..(Len(tokens) - 1)}

\* C14: the pair a train iteration selects has the maximum adjacent-pair
\* count in the working sequence of that iteration, and among the pairs tied
\* at that maximum it is the one whose first occurrence is leftmost.
C14_PairSelection ==
    last.op = "train" =>
        LET run == TrainRun(last.text, last.vocab_size)
        IN  \A i \in 1..Len(merges) :
                LET tokens == run.trace[i]
                    top_pair == merges[i].key
                IN  /\ top_pair \in AdjacentPairs(tokens)
                    /\ \A q \in AdjacentPairs(tokens) :
                           /\ Occ(tokens, q) <= Occ(tokens, top_pair)
                           /\ Occ(tokens, q) = Occ(tokens, top_pair) =>
                                  FirstPos(tokens, top_pair) <= FirstPos(tokens, q)

\* a train whose first selection passed over a pair seen earlier with a
\* lower count, and whose second selection was the leftmost of tied pairs
C14_Witness ==
    /\ last.op = "train"
    /\ Len(merges) >= 2
    /\ LET run == TrainRun(last.text, last.vocab_size)
       IN  /\ \E q \in AdjacentPairs(run.trace[1]) :
                  /\ FirstPos(run.trace[1], q) < FirstPos(run.trace[1], merges[1].key)
                  /\ Occ(run.trace[1], q) < Occ(run.trace[1], merges[1].key)
           /\ \E q \in AdjacentPairs(run.trace[2]) :
                  /\ q /= merges[2].key
                  /\ Occ(run.trace[2], q) = Occ(run.trace[2], merges[2].key)

\* a merged sequence with every occurrence of index written out as a, b
RECURSIVE Expand(_, _, _)
Expand(result, pair, index) ==
    IF result = <<>> THEN <<>>
    ELSE (IF Head(result) = index THEN <<pair[1], pair[2]>> ELSE <<Head(result)>>)
         \o Expand(Tail(result), pair, index)

\* position in the input of the tokens that result[k] stands for
RECURSIVE InputPos(_, _, _)
InputPos(result, index, k) ==
    IF k = 1 THEN 1
    ELSE InputPos(result, index, k - 1) + (IF result[k - 1] = index THEN 2 ELSE 1)

\* positions of the input where an occurrence of the pair was replaced
Replaced(result, index) ==
    {InputPos(result, index, k) : k \in {j \in 1..Len(result) : result[j] = index}}

\* the replacement ID does not occur in the sequence and is neither a nor b
NewIndex(tokens, pair, index) ==
    /\ \A k \in 1..Len(tokens) : tokens[k] /= index
    /\ index /= pair[1]
    /\ index /= pair[2]

\* C15: for a replacement ID that is new, _merge_bytepairs returns a sequence
\* no longer than its input, which expands back to the input, holds no
\* adjacent (a,b), and replaces the greedy left-to-right non-overlapping
\* occurrences: an occurrence is left alone only when the one starting one
\* position to its left was replaced.
C15_MergeBytepairs ==
    (last.op = "_merge_bytepairs" /\ NewIndex(last.tokens, last.pair, last.index)) =>
        /\ Len(last.result) <= Len(last.tokens)
        /\ Expand(last.result, last.pair, last.index) = last.tokens
        /\ Positions(last.result, last.pair) = {}
        /\ \A q \in Positions(last.tokens, last.pair) :
               \/ q \in Replaced(last.result, last.index)
               \/ q - 1 \in Replaced(last.result, last.index)

\* a call with overlapping occurrences (a,a,a with the pair (a,a)): one of
\* them was replaced and another was not
C15_Witness ==
    /\ last.op = "_merge_bytepairs"
    /\ NewIndex(last.tokens, last.pair, last.index)
    /\ Replaced(last.result, last.index) /= {}
    /\ \E q \in Positions(last.tokens, last.pair) :
           q \notin Replaced(last.result, last.index)

\* C16: each merge rule's left and right IDs are below 256 or IDs of rules
\* that come earlier in insertion order, so _build_vocab resolves every rule.
C16_NoUndefinedReference ==
    /\ \A i \in 1..Len(merges) :
           \A side \in 1..2 :
               \/ merges[i].key[side] \in 0..(ByteCount - 1)
               \/ \E j \in 1..(i - 1) : merges[j].val = merges[i].key[side]
    /\ BuildVocab(merges, special_tokens).ok

\* C17: a train call that raises after it recorded some merges leaves
\* merges, special_tokens and vocab as they were before the call, and
\* afterwards decode(encode(T)) does not fail for any text T.
C17_FailedTrainKeepsState ==
    [][(/\ calls' = calls + 1
        /\ last'.op = "train"
        /\ last'.status = "raised"
        /\ Len(TrainRun(last'.text, last'.vocab_size).merges) >= 1)
       => (/\ UNCHANGED <<merges, special_tokens, vocab>>
           /\ \A T \in Texts :
                  Decode(vocab', Encode(merges', T)).status = "ok")]_vars

====
